---- MODULE Spec2Model ----
(***************************************************************************)
(* Risk-AI: the RiskGame turn/phase state machine, the Board mutation      *)
(* primitives and the blitz combat resolver (src/risk_game.py,             *)
(* src/enviornment.py, src/Enviornment.py, src/config.py).                 *)
(* Around them: the command framing and the handlers of RiskServer        *)
(* (src/risk_server.py), the turn loop of GameManager                      *)
(* (src/game_manager.py) and the CardManager deck.                         *)
(*                                                                         *)
(* The map is a corner of config.territories_with_adjacency: the chain     *)
(* Siam - Indonesia - New_Guinea with the adjacency these three regions    *)
(* have among themselves, and the continent Australia cut down to its      *)
(* regions on that board.                                                  *)
(***************************************************************************)
EXTENDS Integers, Sequences, FiniteSets, TLC

\* ------------------------------------------------------------------------
\* Bounds of the model
\* ------------------------------------------------------------------------
\* no deploy or fortify drives a territory above this many troops (nor below
\* zero); troop amounts passed as arguments range up to one more
MaxTroops == 2
\* no deploy drives a deploy allotment above this value
MaxAllot == 3
\* largest troop count of a territory handed to blitz_attack directly
BlitzTroops == 4

\* ------------------------------------------------------------------------
\* Session configuration and static data (src/config.py)
\* ------------------------------------------------------------------------
\* the player list RiskGame is constructed with
players == <<"User", "AI">>

NumPlayers == Len(players)

\* Python's None as a territory owner; player ids are 1..NumPlayers
None == 0

Players == 1..NumPlayers

Regions == {"Siam", "Indonesia", "New_Guinea"}

\* a region name that is not a key of Board.territories
UnknownRegion == "Atlantis"

Names == Regions \cup {UnknownRegion}

territories_with_adjacency ==
    [r \in Regions |->
        CASE r = "Siam"       -> {"Indonesia"}
          [] r = "Indonesia"  -> {"Siam", "New_Guinea"}
          [] r = "New_Guinea" -> {"Indonesia"}]

ContinentNames == {"Australia"}

continents == [c \in ContinentNames |-> {"Indonesia", "New_Guinea"}]

continent_bonuses == [c \in ContinentNames |-> 2]

phase_order == <<"deploy", "attack", "fortify">>

\* argument domains of the calls: troop amounts, and troop amounts with a
\* negative one among them
Counts == 0..(MaxTroops + 1)

SignedCounts == (0 - 1)..(MaxTroops + 1)

\* ------------------------------------------------------------------------
\* State
\* ------------------------------------------------------------------------
VARIABLES
    owner,              \* Territory.owner of every region of the board
    troop_count,        \* Territory.troop_count of every region
    current_player,     \* RiskGame.current_player
    phase,              \* RiskGame.phase
    troops_to_deploy,   \* RiskGame.troops_to_deploy
    game_over,          \* RiskGame.game_over
    pc,                 \* "idle", or "blitz" while blitz_attack's loop runs
    atk,                \* the attack call in progress and its dice rounds so far
    last,               \* the last call that returned, what it returned and
                        \* the dice rounds it rolled
    end_calls,          \* end_phase calls so far, modulo 3 * NumPlayers
    fn,                 \* the library call in progress outside RiskGame: its
                        \* name, arguments, loop variables and result
    buffer,             \* RiskServer.buffer
    wire,               \* bytes the client has written that recv has not
                        \* returned yet
    sent                \* the messages the handler of the last command sent

vars == <<owner, troop_count, current_player, phase, troops_to_deploy,
          game_over, pc, atk, last, end_calls, fn, buffer, wire, sent>>

\* the state of a RiskGame and its board
game == <<owner, troop_count, current_player, phase, troops_to_deploy,
          game_over, pc, atk, last, end_calls>>

\* the state outside RiskGame and its board
outside == <<fn, buffer, wire, sent>>

NoCall == [op |-> ""]

\* no library call in progress, nothing buffered, received or sent
OutsideIdle ==
    /\ fn = NoCall
    /\ buffer = <<>>
    /\ wire = <<>>
    /\ sent = <<>>

NoAttack == [op |-> "", from |-> "", to |-> "", rounds |-> 0,
             attackers |-> 0, defenders |-> 0]

\* return values
RetTrue == <<"True">>
RetFalse == <<"False">>
RetNone == <<"None">>
RetKeyError == <<"KeyError">>

Max(a, b) == IF a >= b THEN a ELSE b
Min(a, b) == IF a <= b THEN a ELSE b

\* model bound on a troop count the model lets an operation produce
InRange(n) == n >= 0 /\ n <= MaxTroops

\* ------------------------------------------------------------------------
\* Board queries
\* ------------------------------------------------------------------------
Owned(own, p) == {t \in Regions : own[t] = p}

calculate_initial_troops(own, player) ==
    Max(3, Cardinality(Owned(own, player)) \div 3)

\* sum(bonuses[cont] for cont in S)
RECURSIVE SumBonuses(_, _)
SumBonuses(bonuses, S) ==
    IF S = {} THEN 0
    ELSE LET c == CHOOSE x \in S : TRUE
         IN bonuses[c] + SumBonuses(bonuses, S \ {c})

\* the continents in which player_id owns some territory
touched_continents(conts, own, player_id) ==
    {c \in DOMAIN conts : \E t \in conts[c] : own[t] = player_id}

\* the continents whose every territory player_id owns
full_continents(conts, own, player_id) ==
    {c \in DOMAIN conts : \A t \in conts[c] : own[t] = player_id}

\* Board.calculate_troops on a board with the owners own, the continents
\* conts and their bonuses
Board_calculate_troops(conts, bonuses, own, player_id) ==
    LET territories_owned == Cardinality({t \in DOMAIN own : own[t] = player_id})
        territory_bonus == Max(territories_owned \div 3, 3)
        continent_bonus == SumBonuses(bonuses, full_continents(conts, own, player_id))
    IN territory_bonus + continent_bonus

\* boardmanagement.calculate_troops: the for loop over continents.items(),
\* todo being the continents it has not visited yet
RECURSIVE continent_bonus_loop(_, _, _, _, _)
continent_bonus_loop(conts, bonuses, territory_data, player_id, todo) ==
    IF todo = {} THEN 0
    ELSE LET continent == CHOOSE c \in todo : TRUE
             rest == continent_bonus_loop(conts, bonuses, territory_data,
                                          player_id, todo \ {continent})
         IN IF \A t \in conts[continent] : territory_data[t].owner = player_id
            THEN bonuses[continent] + rest
            ELSE rest

boardmanagement_calculate_troops(conts, bonuses, territory_data, player_id) ==
    LET territories_owned ==
            Cardinality({t \in DOMAIN territory_data :
                            territory_data[t].owner = player_id})
        territory_bonus == Max(territories_owned \div 3, 3)
    IN territory_bonus
       + continent_bonus_loop(conts, bonuses, territory_data, player_id, DOMAIN conts)

\* Board.calculate_troops on the board of the game
calculate_troops(own, player_id) ==
    Board_calculate_troops(continents, continent_bonuses, own, player_id)

\* the owners that RiskGame.check_winner collects
Owners(own) == {own[t] : t \in Regions} \ {None}

\* a winner test that waits until no territory is unowned
check_winner_on_full_board(own) ==
    IF Cardinality(Owners(own)) = 1 /\ \A t \in Regions : own[t] # None
    THEN CHOOSE p \in Owners(own) : TRUE ELSE None

check_winner(own) ==
    IF Cardinality(Owners(own)) = 1 THEN CHOOSE p \in Owners(own) : TRUE ELSE None

\* ------------------------------------------------------------------------
\* Initial boards
\* ------------------------------------------------------------------------
\* random.shuffle: every order of the names in regs
shuffles(regs) ==
    {order \in [1..Cardinality(regs) -> regs] :
        \A i, j \in 1..Cardinality(regs) : order[i] = order[j] => i = j}

\* the for loop of generate_random_board with a remainder that never runs out
RECURSIVE assign_chunks_all_extra(_, _, _, _, _, _)
assign_chunks_all_extra(order, num_players, player_id, idx, remainder, own) ==
    IF player_id > num_players THEN own
    ELSE LET portion == (Len(order) \div num_players) + 1
             chunk == {order[i] : i \in (idx + 1)..Min(idx + portion, Len(order))}
         IN assign_chunks_all_extra(order, num_players, player_id + 1, idx + portion,
                                    remainder,
                                    [t \in DOMAIN own |->
                                        IF t \in chunk THEN player_id ELSE own[t]])

\* the for loop of Board.generate_random_board from player_id on: the owners
\* it leaves, own being the owners set so far
RECURSIVE assign_chunks(_, _, _, _, _, _)
assign_chunks(order, num_players, player_id, idx, remainder, own) ==
    IF player_id > num_players THEN own
    ELSE LET portion == (Len(order) \div num_players)
                        + (IF remainder > 0 THEN 1 ELSE 0)
             chunk == {order[i] : i \in (idx + 1)..Min(idx + portion, Len(order))}
         IN assign_chunks(order, num_players, player_id + 1, idx + portion,
                          IF remainder > 0 THEN remainder - 1 ELSE remainder,
                          [t \in DOMAIN own |->
                              IF t \in chunk THEN player_id ELSE own[t]])

\* Board.generate_random_board: the owners it leaves for a shuffle order
random_board(order, num_players) ==
    assign_chunks(order, num_players, 1, 0, Len(order) % num_players,
                  [t \in {order[i] : i \in 1..Len(order)} |-> None])

\* the boards Board.generate_random_board can leave for the game
generate_random_board ==
    {random_board(order, NumPlayers) : order \in shuffles(Regions)}

\* Board.load_from_file: owners from a saved board, some of them None
load_from_file == [Regions -> Players \cup {None}]

\* RiskGame.__init__ on a board with the owners own
NewGame(own) ==
    /\ owner = own
    /\ troop_count = [t \in Regions |-> IF own[t] # None THEN 1 ELSE 0]
    /\ current_player = 1
    /\ phase = "deploy"
    /\ troops_to_deploy = [p \in Players |-> calculate_initial_troops(own, p)]
    /\ game_over = FALSE
    /\ pc = "idle"
    /\ atk = NoAttack
    /\ last = [op |-> "init", ret |-> RetNone, rounds |-> 0]
    /\ end_calls = 0
    /\ OutsideIdle

Init == \E own \in generate_random_board : NewGame(own)

InitLoaded == \E own \in load_from_file : NewGame(own)

\* what every call that fails or raises leaves alone
GameUnchanged ==
    UNCHANGED <<owner, troop_count, current_player, phase, troops_to_deploy,
                game_over, pc, atk, end_calls>>

Returns(op, ret) == last' = [op |-> op, ret |-> ret, rounds |-> 0]

\* ------------------------------------------------------------------------
\* Turn / phase state machine
\* ------------------------------------------------------------------------
phase_index(ph) == CHOOSE i \in 1..3 : phase_order[i] = ph

\* end_phase wrapping one player too early
next_player_wraps_early(p) == IF p + 1 >= NumPlayers THEN 1 ELSE p + 1

next_player(p) == IF p + 1 > NumPlayers THEN 1 ELSE p + 1

\* RiskGame.end_phase on the game state
end_phase_transition ==
    /\ pc = "idle"
    /\ IF phase_index(phase) = Len(phase_order)
       THEN /\ phase' = "deploy"
            /\ current_player' = next_player(current_player)
            /\ troops_to_deploy' =
                 [troops_to_deploy EXCEPT ![next_player(current_player)] =
                     calculate_initial_troops(owner, next_player(current_player))]
       ELSE /\ phase' = phase_order[phase_index(phase) + 1]
            /\ UNCHANGED <<current_player, troops_to_deploy>>
    /\ end_calls' = (end_calls + 1) % (3 * NumPlayers)
    /\ Returns("end_phase", RetNone)
    /\ UNCHANGED <<owner, troop_count, game_over, pc, atk>>

\* RiskGame.end_phase called on its own
end_phase ==
    /\ end_phase_transition
    /\ UNCHANGED outside

\* ------------------------------------------------------------------------
\* Deploy phase
\* ------------------------------------------------------------------------
\* RiskGame.deploy_troops
deploy_troops(player, territory, count) ==
    /\ pc = "idle"
    /\ UNCHANGED outside
    /\ IF phase # "deploy" \/ player # current_player
       THEN Returns("deploy_troops", RetFalse) /\ GameUnchanged
       ELSE IF territory \notin Regions
       THEN Returns("deploy_troops", RetKeyError) /\ GameUnchanged
       ELSE IF owner[territory] # player \/ count > troops_to_deploy[player]
       THEN Returns("deploy_troops", RetFalse) /\ GameUnchanged
       ELSE /\ InRange(troop_count[territory] + count)
            /\ troops_to_deploy[player] - count <= MaxAllot
            /\ troop_count' = [troop_count EXCEPT ![territory] = @ + count]
            /\ troops_to_deploy' = [troops_to_deploy EXCEPT ![player] = @ - count]
            /\ Returns("deploy_troops", RetTrue)
            /\ UNCHANGED <<owner, current_player, phase, game_over, pc, atk, end_calls>>

\* Board.deploy_troops (Board.get_territory, Territory.add_troops)
Board_deploy_troops(player_id, territory, troops) ==
    /\ pc = "idle"
    /\ UNCHANGED outside
    /\ IF territory \in Regions /\ owner[territory] = player_id
       THEN /\ InRange(troop_count[territory] + troops)
            /\ troop_count' = [troop_count EXCEPT ![territory] = @ + troops]
            /\ Returns("Board.deploy_troops", RetTrue)
            /\ UNCHANGED <<owner, current_player, phase, troops_to_deploy,
                           game_over, pc, atk, end_calls>>
       ELSE Returns("Board.deploy_troops", RetFalse) /\ GameUnchanged

\* ------------------------------------------------------------------------
\* Attack phase
\* ------------------------------------------------------------------------
DieFaces == 6

RECURSIVE InsertDesc(_, _)
InsertDesc(x, s) ==
    IF s = <<>> THEN <<x>>
    ELSE IF x >= Head(s) THEN <<x>> \o s
    ELSE <<Head(s)>> \o InsertDesc(x, Tail(s))

RECURSIVE SortDesc(_)
SortDesc(s) == IF s = <<>> THEN <<>> ELSE InsertDesc(Head(s), SortDesc(Tail(s)))

\* RiskGame.roll_dice: every list it can return for num_dice dice
roll_dice(num_dice) == {SortDesc(s) : s \in [1..num_dice -> 1..DieFaces]}

\* a comparison that gives ties to the attacker
round_losses_ties_to_attacker(attack_roll, defense_roll) ==
    LET pairs == 1..Min(Len(attack_roll), Len(defense_roll))
    IN [def |-> Cardinality({i \in pairs : attack_roll[i] >= defense_roll[i]}),
        att |-> Cardinality({i \in pairs : ~(attack_roll[i] >= defense_roll[i])})]

\* a comparison after which a tie costs neither side a troop
round_losses_ties_spare_both(attack_roll, defense_roll) ==
    LET pairs == 1..Min(Len(attack_roll), Len(defense_roll))
    IN [def |-> Cardinality({i \in pairs : attack_roll[i] > defense_roll[i]}),
        att |-> Cardinality({i \in pairs : attack_roll[i] < defense_roll[i]})]

\* the for loop of one round: troops lost by each side
round_losses(attack_roll, defense_roll) ==
    LET pairs == 1..Min(Len(attack_roll), Len(defense_roll))
    IN [def |-> Cardinality({i \in pairs : attack_roll[i] > defense_roll[i]}),
        att |-> Cardinality({i \in pairs : ~(attack_roll[i] > defense_roll[i])})]

\* the losses one round can produce, per number of dice of each side
round_outcomes ==
    [ad \in 1..3, dd \in 1..2 |->
        {round_losses(a, d) : a \in roll_dice(ad), d \in roll_dice(dd)}]

attacker_dice(attacker_troops) == Min(3, attacker_troops - 1)
defender_dice(defender_troops) == Min(2, defender_troops)

\* the while condition of blitz_attack
blitz_continues(attacker_troops, defender_troops) ==
    attacker_troops > 1 /\ defender_troops > 0

\* is_valid_attack without its adjacency test
is_valid_attack_anywhere(attacker, defender) ==
    /\ owner[attacker] = current_player
    /\ owner[defender] # current_player
    /\ troop_count[attacker] > 1

is_valid_attack(attacker, defender) ==
    /\ owner[attacker] = current_player
    /\ owner[defender] # current_player
    /\ defender \in territories_with_adjacency[attacker]
    /\ troop_count[attacker] > 1

\* user_attack / ai_attack up to the call of blitz_attack
attack_call(op, attack_from, attack_to) ==
    /\ pc = "idle"
    /\ UNCHANGED outside
    /\ IF phase # "attack"
       THEN Returns(op, RetFalse) /\ GameUnchanged
       ELSE IF attack_from \notin Regions \/ attack_to \notin Regions
       THEN Returns(op, RetKeyError) /\ GameUnchanged
       ELSE IF ~is_valid_attack(attack_from, attack_to)
       THEN Returns(op, RetFalse) /\ GameUnchanged
       ELSE /\ pc' = "blitz"
            /\ atk' = [op |-> op, from |-> attack_from, to |-> attack_to,
                       rounds |-> 0,
                       attackers |-> troop_count[attack_from],
                       defenders |-> troop_count[attack_to]]
            /\ UNCHANGED <<owner, troop_count, current_player, phase,
                           troops_to_deploy, game_over, last, end_calls>>

user_attack(attack_from, attack_to) == attack_call("user_attack", attack_from, attack_to)

ai_attack(attack_from, attack_to) == attack_call("ai_attack", attack_from, attack_to)

\* one pass of the while loop of blitz_attack
blitz_round ==
    /\ pc = "blitz"
    /\ UNCHANGED outside
    /\ blitz_continues(troop_count[atk.from], troop_count[atk.to])
    /\ \E o \in round_outcomes[attacker_dice(troop_count[atk.from]),
                               defender_dice(troop_count[atk.to])] :
          troop_count' = [troop_count EXCEPT ![atk.from] = @ - o.att,
                                             ![atk.to] = @ - o.def]
    /\ atk' = [atk EXCEPT !.rounds = @ + 1]
    /\ UNCHANGED <<owner, current_player, phase, troops_to_deploy, game_over,
                   pc, last, end_calls>>

\* a capture test that takes a territory still holding a troop
captures_last_troop(defender_troops) == defender_troops <= 1

\* the capture test of blitz_attack
captures(defender_troops) == defender_troops <= 0

\* RiskGame.post_attack_movement
post_attack_amount(move_amount, attacker_troops) ==
    Max(1, Min(move_amount, attacker_troops - 1))

post_attack_owner(own, attacker, defender) ==
    [own EXCEPT ![defender] = own[attacker]]

post_attack_troops(tc, attacker, defender, move_amount) ==
    LET m == post_attack_amount(move_amount, tc[attacker])
    IN [tc EXCEPT ![defender] = m, ![attacker] = tc[attacker] - m]

\* blitz_attack's return value once the loop is over
blitz_result(own, defender_troops) ==
    captures(defender_troops) /\ check_winner(own) # None

\* the end of blitz_attack and the rest of the caller (user_attack,
\* ai_attack, or a direct call of blitz_attack)
blitz_return(move_amount) ==
    /\ pc = "blitz"
    /\ UNCHANGED outside
    /\ ~blitz_continues(troop_count[atk.from], troop_count[atk.to])
    /\ LET a == atk.from
           d == atk.to
           captured == captures(troop_count[d])
           own1 == IF captured THEN [owner EXCEPT ![d] = owner[a]] ELSE owner
           tc1 == IF captured
                  THEN [troop_count EXCEPT ![d] = 1, ![a] = troop_count[a] - 1]
                  ELSE troop_count
           result == blitz_result(own1, troop_count[d])
           moves == atk.op = "ai_attack" /\ result
       IN /\ owner' = IF moves THEN post_attack_owner(own1, a, d) ELSE own1
          /\ troop_count' = IF moves THEN post_attack_troops(tc1, a, d, move_amount)
                            ELSE tc1
          /\ game_over' = IF captured /\ check_winner(own1) # None
                          THEN TRUE ELSE game_over
          /\ last' = [op |-> atk.op,
                      ret |-> CASE atk.op = "ai_attack" -> RetTrue
                                [] atk.op = "user_attack" ->
                                     IF result THEN <<a, d>> ELSE <<"None", "None">>
                                [] OTHER -> IF result THEN RetTrue ELSE RetFalse,
                      rounds |-> atk.rounds]
    /\ pc' = "idle"
    /\ atk' = NoAttack
    /\ UNCHANGED <<current_player, phase, troops_to_deploy, end_calls>>

\* the (attack_from, attack_to) a user_attack / user_fortify call returned
ReturnedPair(op) ==
    /\ last.op = op
    /\ Len(last.ret) = 2
    /\ last.ret[1] \in Regions
    /\ last.ret[2] \in Regions

\* RiskGame.user_post_attack_move, called with what user_attack returned
user_post_attack_move(move_amount) ==
    /\ pc = "idle"
    /\ UNCHANGED outside
    /\ last.op = "user_attack"
    /\ Len(last.ret) = 2
    /\ IF ReturnedPair("user_attack")
       THEN /\ owner' = post_attack_owner(owner, last.ret[1], last.ret[2])
            /\ troop_count' = post_attack_troops(troop_count, last.ret[1],
                                                 last.ret[2], move_amount)
       ELSE UNCHANGED <<owner, troop_count>>
    /\ Returns("user_post_attack_move", RetNone)
    /\ UNCHANGED <<current_player, phase, troops_to_deploy, game_over, pc, atk,
                   end_calls>>

\* ------------------------------------------------------------------------
\* Fortify phase
\* ------------------------------------------------------------------------
\* is_valid_fortify looks up from_territory first and to_territory only if
\* the first comparison holds
fortify_raises(from_territory, to_territory) ==
    \/ from_territory \notin Regions
    \/ owner[from_territory] = current_player /\ to_territory \notin Regions

is_valid_fortify(from_territory, to_territory) ==
    /\ owner[from_territory] = current_player
    /\ owner[to_territory] = current_player

fortify_amount(move_amount, from_troops) ==
    Max(1, Min(move_amount, from_troops - 1))

\* a fortify_troops that adds the amount asked for, not the amount taken
fortify_troops_adds_request(tc, from_territory, to_territory, move_amount) ==
    LET m == fortify_amount(move_amount, tc[from_territory])
        tc1 == [tc EXCEPT ![from_territory] = @ - m]
    IN [tc1 EXCEPT ![to_territory] = @ + Max(1, move_amount)]

\* RiskGame.fortify_troops: the troop counts it leaves
fortify_troops(tc, from_territory, to_territory, move_amount) ==
    LET m == fortify_amount(move_amount, tc[from_territory])
        tc1 == [tc EXCEPT ![from_territory] = @ - m]
    IN [tc1 EXCEPT ![to_territory] = @ + m]

FortifyInRange(tc) == \A t \in Regions : InRange(tc[t])

\* user_fortify ending the fortify phase once a move is chosen
user_fortify_ends_phase(from_territory, to_territory) ==
    /\ pc = "idle"
    /\ UNCHANGED outside
    /\ IF phase = "fortify" /\ ~fortify_raises(from_territory, to_territory)
          /\ is_valid_fortify(from_territory, to_territory)
       THEN /\ Returns("user_fortify", <<from_territory, to_territory>>)
            /\ phase' = "deploy"
            /\ UNCHANGED <<owner, troop_count, current_player, troops_to_deploy,
                           game_over, pc, atk, end_calls>>
       ELSE Returns("user_fortify", RetFalse) /\ GameUnchanged

user_fortify(from_territory, to_territory) ==
    /\ pc = "idle"
    /\ UNCHANGED outside
    /\ IF phase # "fortify"
       THEN Returns("user_fortify", RetFalse)
       ELSE IF fortify_raises(from_territory, to_territory)
       THEN Returns("user_fortify", RetKeyError)
       ELSE IF ~is_valid_fortify(from_territory, to_territory)
       THEN Returns("user_fortify", RetFalse)
       ELSE Returns("user_fortify", <<from_territory, to_territory>>)
    /\ GameUnchanged

\* RiskGame.user_fortify_amount, called with what user_fortify returned
user_fortify_amount(move_amount) ==
    /\ pc = "idle"
    /\ UNCHANGED outside
    /\ ReturnedPair("user_fortify")
    /\ FortifyInRange(fortify_troops(troop_count, last.ret[1], last.ret[2], move_amount))
    /\ troop_count' = fortify_troops(troop_count, last.ret[1], last.ret[2], move_amount)
    /\ Returns("user_fortify_amount", RetNone)
    /\ UNCHANGED <<owner, current_player, phase, troops_to_deploy, game_over,
                   pc, atk, end_calls>>

ai_fortify(from_territory, to_territory, move_amount) ==
    /\ pc = "idle"
    /\ UNCHANGED outside
    /\ IF phase # "fortify"
       THEN Returns("ai_fortify", RetFalse) /\ GameUnchanged
       ELSE IF fortify_raises(from_territory, to_territory)
       THEN Returns("ai_fortify", RetKeyError) /\ GameUnchanged
       ELSE IF ~is_valid_fortify(from_territory, to_territory)
       THEN Returns("ai_fortify", RetFalse) /\ GameUnchanged
       ELSE /\ FortifyInRange(fortify_troops(troop_count, from_territory,
                                             to_territory, move_amount))
            /\ troop_count' = fortify_troops(troop_count, from_territory,
                                             to_territory, move_amount)
            /\ Returns("ai_fortify", RetTrue)
            /\ UNCHANGED <<owner, current_player, phase, troops_to_deploy,
                           game_over, pc, atk, end_calls>>

Next ==
    \/ end_phase
    \/ \E p \in Players, t \in Names, c \in Counts : deploy_troops(p, t, c)
    \/ \E f \in Names, t \in Names : user_attack(f, t)
    \/ \E f \in Names, t \in Names : ai_attack(f, t)
    \/ blitz_round
    \/ \E m \in Counts : blitz_return(m)
    \/ \E m \in Counts : user_post_attack_move(m)
    \/ \E f \in Names, t \in Names : user_fortify(f, t)
    \/ \E m \in Counts : user_fortify_amount(m)
    \/ \E f \in Names, t \in Names, m \in Counts : ai_fortify(f, t, m)
Spec == Init /\ [][Next]_vars

\* the deploy operations called with any troop amount, negative ones included
NextDeploy ==
    \/ end_phase
    \/ \E p \in Players, t \in Names, c \in SignedCounts : deploy_troops(p, t, c)
    \/ \E p \in Players, t \in Names, c \in SignedCounts : Board_deploy_troops(p, t, c)

SpecDeploy == Init /\ [][NextDeploy]_vars

\* a game on a board loaded from a file, where regions may be unowned
NextAttack ==
    \/ end_phase
    \/ \E p \in Players, t \in Names, c \in Counts : deploy_troops(p, t, c)
    \/ \E f \in Names, t \in Names : user_attack(f, t)
    \/ \E f \in Names, t \in Names : ai_attack(f, t)
    \/ blitz_round
    \/ \E m \in Counts : blitz_return(m)
    \/ \E m \in Counts : user_post_attack_move(m)

SpecLoaded == InitLoaded /\ [][NextAttack]_vars

\* blitz_attack called directly on two territories of different owners
InitBlitz ==
    \E own \in load_from_file, a \in Regions, d \in Regions,
       x \in 1..BlitzTroops, y \in 0..BlitzTroops :
        /\ own[a] # None
        /\ own[d] # own[a]
        /\ own[d] = None => y = 0
        /\ owner = own
        /\ troop_count = [t \in Regions |->
                             IF t = a THEN x
                             ELSE IF t = d THEN y
                             ELSE IF own[t] # None THEN 1 ELSE 0]
        /\ current_player = own[a]
        /\ phase = "attack"
        /\ troops_to_deploy = [p \in Players |-> calculate_initial_troops(own, p)]
        /\ game_over = FALSE
        /\ pc = "blitz"
        /\ atk = [op |-> "blitz_attack", from |-> a, to |-> d, rounds |-> 0,
                  attackers |-> x, defenders |-> y]
        /\ last = [op |-> "init", ret |-> RetNone, rounds |-> 0]
        /\ end_calls = 0
        /\ OutsideIdle

NextBlitz ==
    \/ blitz_round
    \/ \E m \in Counts : blitz_return(m)

SpecBlitz == InitBlitz /\ [][NextBlitz]_vars

\* the fortify phase of either player on a loaded board whose owned
\* territories hold 1..MaxTroops troops
InitFortify ==
    \E own \in load_from_file, p \in Players,
       tc \in [Regions -> 0..MaxTroops] :
        /\ \A t \in Regions : tc[t] = 0 <=> own[t] = None
        /\ owner = own
        /\ troop_count = tc
        /\ current_player = p
        /\ phase = "fortify"
        /\ troops_to_deploy = [q \in Players |-> calculate_initial_troops(own, q)]
        /\ game_over = FALSE
        /\ pc = "idle"
        /\ atk = NoAttack
        /\ last = [op |-> "init", ret |-> RetNone, rounds |-> 0]
        /\ end_calls = 0
        /\ OutsideIdle

NextFortify ==
    \/ \E f \in Names, t \in Names, m \in SignedCounts : ai_fortify(f, t, m)
    \/ \E f \in Names, t \in Names : user_fortify(f, t)
    \/ \E m \in SignedCounts : user_fortify_amount(m)

SpecFortify == InitFortify /\ [][NextFortify]_vars

\* ------------------------------------------------------------------------
\* Library calls on a board without a running game
\* ------------------------------------------------------------------------
\* a board with the owners own and the troop counts tc, no RiskGame call made
BoardOnly(own, tc) ==
    /\ owner = own
    /\ troop_count = tc
    /\ current_player = 1
    /\ phase = "deploy"
    /\ troops_to_deploy = <<>>
    /\ game_over = FALSE
    /\ pc = "idle"
    /\ atk = NoAttack
    /\ last = [op |-> "init", ret |-> RetNone, rounds |-> 0]
    /\ end_calls = 0
    /\ buffer = <<>>
    /\ wire = <<>>
    /\ sent = <<>>

\* the library call fn.op returns ret
LibraryReturns(op, ret) ==
    /\ fn.op = ""
    /\ fn' = [fn EXCEPT !.op = op, !.ret = ret]
    /\ UNCHANGED <<game, buffer, wire, sent>>

\* North and South America of config.continents, with their bonuses
IncomeContinents ==
    [c \in {"North America", "South America"} |->
        CASE c = "North America" ->
                {"Alaska", "Northwest_Territory", "Alberta", "Ontario", "Quebec",
                 "Western_US", "Eastern_US", "Central_America", "Greenland"}
          [] c = "South America" -> {"Venezuela", "Brazil", "Peru", "Argentina"}]

IncomeBonuses ==
    [c \in DOMAIN IncomeContinents |->
        CASE c = "North America" -> 5
          [] c = "South America" -> 2]

IncomeRegions == UNION {IncomeContinents[c] : c \in DOMAIN IncomeContinents}

\* the territory_data dict of boardmanagement for a board
territory_data_of(own, tc) ==
    [t \in DOMAIN own |-> [owner |-> own[t], troops |-> tc[t]]]

InitIncome ==
    \E own \in [IncomeRegions -> Players], player_id \in Players :
        /\ BoardOnly(own, [t \in IncomeRegions |-> 1])
        /\ fn = [op |-> "", player_id |-> player_id, ret |-> RetNone]

NextIncome ==
    \/ LibraryReturns("Board.calculate_troops",
                      <<Board_calculate_troops(IncomeContinents, IncomeBonuses,
                                               owner, fn.player_id)>>)
    \/ LibraryReturns("boardmanagement.calculate_troops",
                      <<boardmanagement_calculate_troops(
                           IncomeContinents, IncomeBonuses,
                           territory_data_of(owner, troop_count), fn.player_id)>>)

SpecIncome == InitIncome /\ [][NextIncome]_vars

\* the largest player id Territory.set_owner accepts
MaxPlayerId == 4

\* number of regions of the board generate_random_board is run on
MaxGenRegions == 5

GenNames == <<"Siam", "Indonesia", "New_Guinea", "Western_Australia",
              "Eastern_Australia", "China", "India">>

GenRegions == {GenNames[i] : i \in 1..MaxGenRegions}

\* a fresh board (Territory.initialize_territories) and a shuffle of its names
InitGenerate ==
    \E order \in shuffles(GenRegions), num_players \in 1..MaxPlayerId :
        /\ BoardOnly([t \in GenRegions |-> None], [t \in GenRegions |-> 0])
        /\ fn = [op |-> "", order |-> order, num_players |-> num_players,
                 ret |-> RetNone]

\* Board.generate_random_board
NextGenerate ==
    /\ fn.op = ""
    /\ owner' = random_board(fn.order, fn.num_players)
    /\ troop_count' = [t \in GenRegions |-> IF owner'[t] # None THEN 1 ELSE 0]
    /\ fn' = [fn EXCEPT !.op = "generate_random_board"]
    /\ UNCHANGED <<current_player, phase, troops_to_deploy, game_over, pc, atk,
                   last, end_calls, buffer, wire, sent>>

SpecGenerate == InitGenerate /\ [][NextGenerate]_vars

\* Board.check_winner
Board_check_winner(own) ==
    LET owners == {own[t] : t \in DOMAIN own} \ {None}
    IN IF Cardinality(owners) = 1 THEN CHOOSE p \in owners : TRUE ELSE None

\* boardmanagement.check_winner: every entry of board_state has an "owner"
\* key, whose value may be None
boardmanagement_check_winner(board_state) ==
    IF DOMAIN board_state = {} THEN None
    ELSE LET owners == {board_state[t].owner : t \in DOMAIN board_state}
         IN IF Cardinality(owners) = 1 THEN CHOOSE p \in owners : TRUE ELSE None

\* any board of the game's regions, or a board without territories
InitWinner ==
    \E own \in load_from_file \cup {<<>>} :
        /\ BoardOnly(own, [t \in DOMAIN own |-> IF own[t] # None THEN 1 ELSE 0])
        /\ fn = [op |-> "", ret |-> RetNone]

NextWinner ==
    \/ LibraryReturns("Board.check_winner", <<Board_check_winner(owner)>>)
    \/ LibraryReturns("boardmanagement.check_winner",
                      <<boardmanagement_check_winner(
                           territory_data_of(owner, troop_count))>>)
    \/ /\ fn.op = ""
       /\ DOMAIN owner = Regions
       /\ fn' = [fn EXCEPT !.op = "RiskGame.check_winner",
                           !.ret = <<check_winner(owner)>>]
       /\ game_over' = (check_winner(owner) # None)
       /\ UNCHANGED <<owner, troop_count, current_player, phase, troops_to_deploy,
                      pc, atk, last, end_calls, buffer, wire, sent>>

SpecWinner == InitWinner /\ [][NextWinner]_vars

\* config.territories_with_adjacency cut down to Siam and Australia, each
\* adjacency list in its order: a graph with cycles
ConnAdjacency ==
    [r \in {"Siam", "Indonesia", "New_Guinea", "Western_Australia",
            "Eastern_Australia"} |->
        CASE r = "Siam" -> <<"Indonesia">>
          [] r = "Indonesia" -> <<"Siam", "New_Guinea", "Western_Australia">>
          [] r = "New_Guinea" ->
                <<"Indonesia", "Western_Australia", "Eastern_Australia">>
          [] r = "Western_Australia" ->
                <<"Indonesia", "New_Guinea", "Eastern_Australia">>
          [] r = "Eastern_Australia" -> <<"Western_Australia", "New_Guinea">>]

\* the neighbours the for loop would push if it did not test their owner
pushed_neighbors_of_any_owner(current, visited, own, player_id) ==
    LET keep(neighbor) == neighbor \notin visited
    IN SelectSeq(ConnAdjacency[current], keep)

\* the neighbours the for loop of find_connected_territories pushes
pushed_neighbors(current, visited, own, player_id) ==
    LET keep(neighbor) == neighbor \notin visited /\ own[neighbor] = player_id
    IN SelectSeq(ConnAdjacency[current], keep)

\* boardmanagement.find_connected_territories entered, before its loop
InitConnected ==
    \E own \in [DOMAIN ConnAdjacency -> Players \cup {None}],
       player_id \in Players, source \in DOMAIN ConnAdjacency :
        /\ BoardOnly(own, [t \in DOMAIN own |-> IF own[t] # None THEN 1 ELSE 0])
        /\ fn = [op |-> "find_connected_territories", player_id |-> player_id,
                 source |-> source, visited |-> {}, stack |-> <<source>>,
                 connected |-> <<>>, ret |-> <<>>]

\* one pass of the while loop
find_connected_step ==
    /\ fn.op = "find_connected_territories"
    /\ fn.stack # <<>>
    /\ LET current == fn.stack[Len(fn.stack)]
           popped == SubSeq(fn.stack, 1, Len(fn.stack) - 1)
           visited == fn.visited \cup {current}
       IN IF current \in fn.visited
          THEN fn' = [fn EXCEPT !.stack = popped]
          ELSE fn' = [fn EXCEPT
                        !.visited = visited,
                        !.connected =
                            IF current # fn.source /\ owner[current] = fn.player_id
                            THEN Append(@, current) ELSE @,
                        !.stack = popped \o pushed_neighbors(current, visited,
                                                             owner, fn.player_id)]
    /\ UNCHANGED <<game, buffer, wire, sent>>

\* return connected
find_connected_return ==
    /\ fn.op = "find_connected_territories"
    /\ fn.stack = <<>>
    /\ fn' = [fn EXCEPT !.op = "returned", !.ret = fn.connected]
    /\ UNCHANGED <<game, buffer, wire, sent>>

NextConnected ==
    \/ find_connected_step
    \/ find_connected_return

\* the loop is sequential code: it keeps running until it returns
SpecConnected ==
    InitConnected /\ [][NextConnected]_vars /\ WF_vars(NextConnected)

\* ------------------------------------------------------------------------
\* One round of blitz_attack with its dice
\* ------------------------------------------------------------------------
\* a round of the while loop for attacker and defender troop counts that
\* pass its condition, with the faces random.randint gives each die; fn
\* holds the troop counts, the faces as thrown, and after the round the
\* sorted rolls and the troops each side lost
InitDice ==
    \E attacker_troops \in 2..(BlitzTroops + 1), defender_troops \in 1..BlitzTroops :
      \E thrown_a \in [1..attacker_dice(attacker_troops) -> 1..DieFaces],
         thrown_d \in [1..defender_dice(defender_troops) -> 1..DieFaces] :
        /\ BoardOnly([t \in Regions |-> None], [t \in Regions |-> 0])
        /\ fn = [op |-> "", attacker |-> attacker_troops,
                 defender |-> defender_troops,
                 thrown_a |-> thrown_a, thrown_d |-> thrown_d,
                 attack_roll |-> <<>>, defense_roll |-> <<>>,
                 losses |-> [def |-> 0, att |-> 0]]

NextDice ==
    /\ fn.op = ""
    /\ blitz_continues(fn.attacker, fn.defender)
    /\ fn' = [fn EXCEPT !.op = "round",
                        !.attack_roll = SortDesc(fn.thrown_a),
                        !.defense_roll = SortDesc(fn.thrown_d),
                        !.losses = round_losses(SortDesc(fn.thrown_a),
                                                SortDesc(fn.thrown_d)),
                        !.attacker = @ - round_losses(SortDesc(fn.thrown_a),
                                                      SortDesc(fn.thrown_d)).att,
                        !.defender = @ - round_losses(SortDesc(fn.thrown_a),
                                                      SortDesc(fn.thrown_d)).def]
    /\ UNCHANGED <<game, buffer, wire, sent>>

SpecDice == InitDice /\ [][NextDice]_vars

\* ------------------------------------------------------------------------
\* RiskServer: command framing
\* ------------------------------------------------------------------------
\* longest byte stream the client writes
MaxStream == 4

\* the bytes of the streams: the digit 1, a space, the newline and the two
\* bytes C3 A9 that encode the character U+00E9
Bytes == {"1", " ", "\n", "C3", "A9"}

\* data.decode("utf-8"): the text of a chunk, or UnicodeDecodeError when a
\* C3 is not followed by A9 inside the chunk or an A9 stands alone
RECURSIVE decode(_)
decode(data) ==
    IF data = <<>> THEN [ok |-> TRUE, text |-> <<>>]
    ELSE IF data[1] = "C3"
    THEN IF Len(data) >= 2 /\ data[2] = "A9"
         THEN LET rest == decode(SubSeq(data, 3, Len(data)))
              IN [ok |-> rest.ok, text |-> <<"U+00E9">> \o rest.text]
         ELSE [ok |-> FALSE, text |-> <<>>]
    ELSE IF data[1] = "A9" THEN [ok |-> FALSE, text |-> <<>>]
    ELSE LET rest == decode(Tail(data))
         IN [ok |-> rest.ok, text |-> <<data[1]>> \o rest.text]

\* position of the first newline of text, 0 if it has none
newline_index(text) ==
    IF \E i \in 1..Len(text) : text[i] = "\n"
    THEN CHOOSE i \in 1..Len(text) :
            text[i] = "\n" /\ \A j \in 1..(i - 1) : text[j] # "\n"
    ELSE 0

\* str.strip
RECURSIVE strip(_)
strip(text) ==
    IF text = <<>> THEN text
    ELSE IF text[1] \in {" ", "\n"} THEN strip(Tail(text))
    ELSE IF text[Len(text)] \in {" ", "\n"}
    THEN strip(SubSeq(text, 1, Len(text) - 1))
    ELSE text

\* json.loads on a text of these characters: a run of digits 1 is the
\* number it writes, anything else raises JSONDecodeError
json_loads(text) ==
    LET RECURSIVE ones(_)
        ones(k) == IF k = 0 THEN 0 ELSE 10 * ones(k - 1) + 1
    IN IF text # <<>> /\ \A i \in 1..Len(text) : text[i] = "1"
       THEN [ok |-> TRUE, value |-> ones(Len(text))]
       ELSE [ok |-> FALSE, value |-> 0]

\* the client has written a stream that is valid UTF-8 as a whole; the
\* server has an empty buffer
InitFraming ==
    \E n \in 0..MaxStream : \E stream \in [1..n -> Bytes] :
        /\ decode(stream).ok
        /\ owner = <<>>
        /\ troop_count = <<>>
        /\ current_player = 1
        /\ phase = "deploy"
        /\ troops_to_deploy = <<>>
        /\ game_over = FALSE
        /\ pc = "idle"
        /\ atk = NoAttack
        /\ last = [op |-> "init", ret |-> RetNone, rounds |-> 0]
        /\ end_calls = 0
        /\ buffer = <<>>
        /\ wire = stream
        /\ sent = <<>>
        /\ fn = [op |-> "", stream |-> stream, records |-> <<>>, returned |-> <<>>]

\* one pass of the while loop of get_next_command: recv returns a chunk of
\* any size, or nothing once the client has closed
recv ==
    /\ fn.op = "get_next_command"
    /\ newline_index(buffer) = 0
    /\ IF wire = <<>>
       THEN fn' = [fn EXCEPT !.op = ""] /\ UNCHANGED <<buffer, wire>>
       ELSE \E k \in 1..Len(wire) :
              LET data == decode(SubSeq(wire, 1, k))
              IN /\ wire' = SubSeq(wire, k + 1, Len(wire))
                 /\ IF data.ok
                    THEN buffer' = buffer \o data.text /\ fn' = fn
                    ELSE buffer' = buffer /\ fn' = [fn EXCEPT !.op = ""]
    /\ UNCHANGED <<game, sent>>

\* the end of get_next_command: split at the first newline, strip, parse
split_command ==
    /\ fn.op = "get_next_command"
    /\ newline_index(buffer) > 0
    /\ LET i == newline_index(buffer)
           command_str == SubSeq(buffer, 1, i - 1)
       IN /\ buffer' = SubSeq(buffer, i + 1, Len(buffer))
          /\ fn' = [fn EXCEPT !.op = "",
                              !.records = Append(@, command_str),
                              !.returned = Append(@, json_loads(strip(command_str)))]
    /\ UNCHANGED <<game, wire, sent>>

NextFraming ==
    \/ /\ fn.op = ""
       /\ fn' = [fn EXCEPT !.op = "get_next_command"]
       /\ UNCHANGED <<game, buffer, wire, sent>>
    \/ recv
    \/ split_command

SpecFraming == InitFraming /\ [][NextFraming]_vars

\* ------------------------------------------------------------------------
\* RiskServer: command handlers
\* ------------------------------------------------------------------------
\* send_territory_update: the message it sends
territory_update(territory_name, owner_id, troops) ==
    [type |-> "territory_update", name |-> territory_name, owner |-> owner_id,
     troops |-> troops]

\* a handle_deploy_troops that reads the troop count for its update before
\* the troops are added
deploy_messages_count_before(success, player_id, territory, troops, own, tc) ==
    <<[type |-> "deploy_response", success |-> success, player_id |-> player_id,
       territory |-> territory, troops |-> troops]>>
    \o (IF success /\ territory \in Regions
        THEN <<territory_update(territory, own[territory],
                                tc[territory] - troops)>>
        ELSE <<>>)

\* a handle_deploy_troops that sends the territory update whatever the result
deploy_messages_always_update(success, player_id, territory, troops, own, tc) ==
    <<[type |-> "deploy_response", success |-> success, player_id |-> player_id,
       territory |-> territory, troops |-> troops],
      territory_update(territory, player_id, troops)>>

\* the messages handle_deploy_troops sends, own and tc being the board after
\* Board.deploy_troops
deploy_messages(success, player_id, territory, troops, own, tc) ==
    <<[type |-> "deploy_response", success |-> success, player_id |-> player_id,
       territory |-> territory, troops |-> troops]>>
    \o (IF success /\ territory \in Regions
        THEN <<territory_update(territory, own[territory], tc[territory])>>
        ELSE <<>>)

\* the body of RiskServer.handle_deploy_troops for the command
\* {type: deploy_troops, player_id, territory, troops}: the board and the
\* messages sent
deploy_command(player_id, territory, troops) ==
    /\ pc = "idle"
    /\ LET success == territory \in Regions /\ owner[territory] = player_id
           tc == IF success
                 THEN [troop_count EXCEPT ![territory] = @ + troops]
                 ELSE troop_count
       IN /\ success => InRange(tc[territory])
          /\ troop_count' = tc
          /\ sent' = deploy_messages(success, player_id, territory, troops,
                                     owner, tc)
    /\ UNCHANGED <<owner, current_player, phase, troops_to_deploy, game_over,
                   pc, atk, last, end_calls, buffer, wire>>

\* RiskServer.handle_deploy_troops called from run_game
handle_deploy_troops(player_id, territory, troops) ==
    /\ deploy_command(player_id, territory, troops)
    /\ UNCHANGED fn

\* the types of the query commands a client sends
QueryTypes ==
    {"request_troop_income", "request_player_cards",
     "request_current_player_cards"}

\* the messages sent for a query command by a dispatch chain that knows the
\* card query under the name card_query: handle_troop_income_request and
\* handle_player_cards_request. No code of the server assigns a card, so
\* the hand of every player is empty.
query_messages(card_query, command_type, player_id) ==
    IF command_type = "request_troop_income"
    THEN IF player_id # None
         THEN <<[type |-> "troop_income_response", player_id |-> player_id,
                 troop_income |-> calculate_troops(owner, player_id)]>>
         ELSE <<>>
    ELSE IF command_type = card_query
    THEN <<[type |-> "player_cards_response", player_id |-> current_player,
            cards |-> <<>>]>>
    ELSE <<>>

\* a query command {type: command_type, player_id} dispatched by run_game
\* (card_query = "request_current_player_cards") or by handle_command
\* (card_query = "request_player_cards")
handle_query(card_query, command_type, player_id) ==
    /\ pc = "idle"
    /\ sent' = query_messages(card_query, command_type, player_id)
    /\ UNCHANGED <<game, fn, buffer, wire>>

\* the server's game: deploy_troops commands, and the phase moved on by
\* RiskGame.end_phase
NextServer ==
    \/ end_phase
    \/ \E p \in Players, t \in Names, n \in SignedCounts :
          handle_deploy_troops(p, t, n)

SpecServer == Init /\ [][NextServer]_vars

\* ------------------------------------------------------------------------
\* RiskServer.run_game: the session of one client
\* ------------------------------------------------------------------------
\* the player lists a session is started with: one type per player, a "User"
\* among them
PlayerLists ==
    {pl \in [Players -> {"User", "AI"}] : \E p \in Players : pl[p] = "User"}

\* send_turn_update: the message it sends
turn_update(player_id) == [type |-> "turn_update", current_player |-> player_id]

\* send_phase_update: the message it sends
phase_update(player_id, ph, is_user) ==
    [type |-> "phase_update", player |-> player_id, phase |-> ph,
     is_user |-> is_user]

\* the start of run_game: the two messages sent before the command loop.
\* fn holds the session: its player list, where its loop is ("wait" for the
\* next command, "ai" inside simulate_ai_turn, "closed" after close),
\* whether somebody outside has asked it to stop, and in auto the number of
\* simulate_ai_turn calls made so far by the handle_end_phase in progress
\* or last returned.
run_game(player_list) ==
    /\ fn = NoCall
    /\ pc = "idle"
    /\ sent' = <<turn_update(current_player),
                 phase_update(current_player, phase, TRUE)>>
    /\ fn' = [op |-> "run_game", players |-> player_list, at |-> "wait",
              stop |-> FALSE, auto |-> 0]
    /\ UNCHANGED <<game, buffer, wire>>

\* the command loop has read nothing yet and the game is not over
waiting_for_command ==
    /\ fn.op = "run_game"
    /\ fn.at = "wait"
    /\ ~game_over

\* a handler that returns to the command loop whoever the new player is
after_end_phase_returns(player_list, new_player) == "wait"

\* where the handler goes after its updates: into simulate_ai_turn if the
\* new current player is not a "User", back to the command loop otherwise
after_end_phase(player_list, new_player) ==
    IF player_list[new_player] = "User" THEN "wait" ELSE "ai"

\* game.end_phase() followed by the updates handle_end_phase and
\* simulate_ai_turn send; player is the player the caller compares the new
\* current player with, auto the simulate_ai_turn calls made with this one
end_phase_and_notify(player, auto) ==
    /\ end_phase_transition
    /\ sent' = (IF current_player' # player
                THEN <<turn_update(current_player')>> ELSE <<>>)
               \o <<phase_update(current_player', phase',
                                 fn.players[current_player'] = "User")>>
    /\ fn' = [fn EXCEPT !.at = after_end_phase(fn.players, current_player'),
                        !.auto = auto]
    /\ UNCHANGED <<buffer, wire>>

\* the fields an end_phase command may carry; None for a missing field
CommandPlayers == Players \cup {None}
CommandPhases == {"deploy", "attack", "fortify", "None"}

\* RiskServer.handle_end_phase for the command {type: end_phase, player, phase}
handle_end_phase(player, ph) ==
    /\ waiting_for_command
    /\ end_phase_and_notify(player, 0)

\* one call of simulate_ai_turn(player_id, phase): the current player is the
\* AI player it was called for
simulate_ai_turn ==
    /\ fn.op = "run_game"
    /\ fn.at = "ai"
    /\ end_phase_and_notify(current_player, fn.auto + 1)

\* a record whose type run_game does not know: nothing is done
unknown_command ==
    /\ waiting_for_command
    /\ sent' = <<>>
    /\ UNCHANGED <<game, fn, buffer, wire>>

\* get_next_command returns None, because recv returned no data
\* ("disconnect"), the connection was reset ("reset") or the record read is
\* not valid JSON ("bad_json"): run_game leaves its loop and closes
command_is_None(cause) ==
    /\ waiting_for_command
    /\ cause \in {"disconnect", "reset", "bad_json"}
    /\ sent' = <<>>
    /\ fn' = [fn EXCEPT !.at = "closed"]
    /\ UNCHANGED <<game, buffer, wire>>

NextSession ==
    \/ \E pl \in PlayerLists : run_game(pl)
    \/ \E p \in CommandPlayers, ph \in CommandPhases : handle_end_phase(p, ph)
    \/ simulate_ai_turn
    \/ \E p \in Players, t \in Regions :
          waiting_for_command /\ handle_deploy_troops(p, t, 1)
    \/ \E type \in QueryTypes, p \in CommandPlayers :
          /\ waiting_for_command
          /\ handle_query("request_current_player_cards", type, p)
    \/ unknown_command
    \/ \E cause \in {"disconnect", "reset", "bad_json"} : command_is_None(cause)
    \* somebody outside the session asks it to stop
    \/ /\ fn.op = "run_game"
       /\ fn.stop = FALSE
       /\ fn' = [fn EXCEPT !.stop = TRUE]
       /\ UNCHANGED <<game, buffer, wire, sent>>

SpecSession == Init /\ [][NextSession]_vars

\* ------------------------------------------------------------------------
\* GameManager.start_game: the turn loop around a RiskServer
\* ------------------------------------------------------------------------
\* check_game_over stops the loop when current_turn is above this value
TurnCap == 20

\* the model follows the turn loop for this many turns
MaxTurns == 22

\* no deploy of simulate_ai_deploy drives a territory above this many troops
MaxAiTroops == 6

\* send_full_board_state: the messages it sends, in the order in which
\* Board.territories is iterated
send_full_board_state(own, tc) ==
    LET order == <<"Siam", "Indonesia", "New_Guinea">>
    IN [i \in 1..Len(order) |->
           territory_update(order[i], own[order[i]], tc[order[i]])]

\* the client's view of the board after the messages msgs have arrived in
\* order on the view it had: every territory_update replaces the owner and
\* the troop count of its territory
RECURSIVE overlay(_, _)
overlay(view, msgs) ==
    IF msgs = <<>> THEN view
    ELSE LET m == Head(msgs)
         IN overlay(IF m.type = "territory_update"
                    THEN [view EXCEPT ![m.name] = <<m.owner, m.troops>>]
                    ELSE view,
                    Tail(msgs))

\* the beginning of start_game: the server is created, the board generated
\* and sent in full. fn holds the loop: player is GameManager.current_player,
\* phase the index of the for loop over self.phases (0 outside it), at the
\* place ("loop" at the while condition, "phase" at the head of the for
\* body, "wait" inside wait_for_command, "deploy" inside simulate_ai_deploy,
\* "closed" after end_game), remaining the troops_to_deploy of
\* simulate_ai_deploy; turns counts the turns started, gone records that
\* the client has disconnected, view is the client's view of the board.
start_game(player_types) ==
    /\ fn = NoCall
    /\ pc = "idle"
    /\ sent' = send_full_board_state(owner, troop_count)
    /\ fn' = [op |-> "start_game", players |-> player_types, player |-> 1,
              phase |-> 0, at |-> "loop", remaining |-> 0, current_turn |-> 0,
              turns |-> 0, gone |-> FALSE,
              view |-> overlay([t \in Regions |-> <<None, 0>>], sent')]
    /\ UNCHANGED <<game, buffer, wire>>

\* the loop state after the phase fn.phase of the current player is over
phase_done(f) ==
    IF f.phase < Len(phase_order)
    THEN [f EXCEPT !.at = "phase", !.phase = f.phase + 1]
    ELSE [f EXCEPT !.at = "loop", !.phase = 0,
                   !.player = (f.player % Len(f.players)) + 1]

\* the while condition: check_game_over, then end_game or the turn_update
\* of the next turn
check_game_over ==
    /\ fn.op = "start_game"
    /\ fn.at = "loop"
    /\ IF Board_check_winner(owner) # None \/ fn.current_turn > TurnCap
       THEN /\ fn' = [fn EXCEPT !.at = "closed"]
            /\ sent' = <<>>
       ELSE /\ fn.turns < MaxTurns
            /\ sent' = <<turn_update(fn.player)>>
            /\ fn' = [fn EXCEPT !.at = "phase", !.phase = 1,
                                !.turns = fn.turns + 1]
    /\ UNCHANGED <<game, buffer, wire>>

\* the head of the for body: the phase_update, then handle_user_phase up to
\* its wait, or handle_ai_phase up to the loop of simulate_ai_deploy
start_phase ==
    /\ fn.op = "start_game"
    /\ fn.at = "phase"
    /\ sent' = <<phase_update(fn.player, phase_order[fn.phase],
                              fn.players[fn.player] = "User")>>
    /\ fn' = IF fn.players[fn.player] = "User"
             THEN [fn EXCEPT !.at = "wait"]
             ELSE IF phase_order[fn.phase] = "deploy"
                     /\ Owned(owner, fn.player) # {}
                  THEN [fn EXCEPT !.at = "deploy",
                                  !.remaining = calculate_troops(owner, fn.player)]
                  ELSE phase_done(fn)
    /\ UNCHANGED <<game, buffer, wire>>

\* a deploy amount that is not cut down to the troops left
ai_deploy_amount_unclamped(random_amount, remaining) == random_amount

\* deploy_amount of simulate_ai_deploy
ai_deploy_amount(random_amount, remaining) == Min(random_amount, remaining)

\* one pass of the while loop of simulate_ai_deploy, with the territory and
\* the number random chose
simulate_ai_deploy(territory_name, random_amount) ==
    /\ fn.op = "start_game"
    /\ fn.at = "deploy"
    /\ territory_name \in Owned(owner, fn.player)
    /\ LET deploy_amount == ai_deploy_amount(random_amount, fn.remaining)
           left == fn.remaining - deploy_amount
       IN /\ troop_count[territory_name] + deploy_amount <= MaxAiTroops
          /\ troop_count' = [troop_count EXCEPT ![territory_name] = @ + deploy_amount]
          /\ sent' = <<territory_update(territory_name, owner[territory_name],
                                        troop_count'[territory_name])>>
          /\ fn' = IF left > 0
                   THEN [fn EXCEPT !.remaining = left,
                                   !.view = overlay(@, sent')]
                   ELSE phase_done([fn EXCEPT !.remaining = left,
                                              !.view = overlay(@, sent')])
    /\ UNCHANGED <<owner, current_player, phase, troops_to_deploy, game_over,
                   pc, atk, last, end_calls, buffer, wire>>

\* wait_for_command("end_phase") inside handle_user_phase: what the next
\* call of get_next_command leads to. After a disconnect every call
\* returns None.
handle_user_phase ==
    /\ fn.op = "start_game"
    /\ fn.at = "wait"
    /\ \/ \* an end_phase command: the phase is over
          /\ ~fn.gone
          /\ sent' = <<>>
          /\ fn' = phase_done(fn)
          /\ UNCHANGED <<game, buffer, wire>>
       \/ \* a deploy_troops command, passed to handle_command
          /\ ~fn.gone
          /\ \E p \in Players, t \in Regions : deploy_command(p, t, 1)
          /\ fn' = [fn EXCEPT !.view = overlay(@, sent')]
       \/ \* a query command, passed to handle_command
          /\ ~fn.gone
          /\ \E type \in QueryTypes, p \in CommandPlayers :
                handle_query("request_player_cards", type, p)
       \/ \* None: the client is gone; the result False is not looked at
          /\ sent' = <<>>
          /\ fn' = [phase_done(fn) EXCEPT !.gone = TRUE]
          /\ UNCHANGED <<game, buffer, wire>>

NextManager ==
    \/ \E pl \in [Players -> {"User", "AI"}] : start_game(pl)
    \/ check_game_over
    \/ start_phase
    \/ \E t \in Regions, r \in 1..3 : simulate_ai_deploy(t, r)
    \/ handle_user_phase

SpecManager == Init /\ [][NextManager]_vars

\* handle_ai_phase("deploy") on its own: the deploy phase of an AI player on
\* a loaded board, some of whose territories may have no owner or all
\* belong to other players
InitAiDeploy ==
    \E own \in load_from_file, p \in Players :
        /\ BoardOnly(own, [t \in Regions |-> IF own[t] # None THEN 1 ELSE 0])
        /\ fn = [op |-> "start_game", players |-> [q \in Players |-> "AI"],
                 player |-> p, phase |-> 1, at |-> "phase", remaining |-> 0,
                 current_turn |-> 0, turns |-> 1, gone |-> FALSE,
                 view |-> [t \in Regions |->
                             <<own[t], IF own[t] # None THEN 1 ELSE 0>>]]

NextAiDeploy ==
    \/ fn.phase = 1 /\ start_phase
    \/ \E t \in Regions, r \in 1..3 : simulate_ai_deploy(t, r)

SpecAiDeploy == InitAiDeploy /\ [][NextAiDeploy]_vars

\* ------------------------------------------------------------------------
\* CardManager
\* ------------------------------------------------------------------------
\* config.territory_card_types: one card per region of the map, with its
\* troop type
territory_card_types ==
    [t \in Regions |->
        CASE t = "Siam"       -> "Infantry"
          [] t = "Indonesia"  -> "Cavalry"
          [] t = "New_Guinea" -> "Artillery"]

\* CardManager.draw_card: the values it may return for the owners cards of
\* the deck; "None" when no card is unassigned
draw_card(cards) ==
    LET unassigned == {c \in DOMAIN cards : cards[c] = 0}
    IN IF unassigned = {} THEN {"None"} ELSE unassigned

\* an assign_card that does not look at the owner the card has
assign_card_to_any(cards, card, player_id) ==
    IF card # "None" /\ player_id \in 1..MaxPlayerId
    THEN [cards EXCEPT ![card] = player_id]
    ELSE cards

\* CardManager.assign_card with Card.assign_to: the owners after the call
assign_card(cards, card, player_id) ==
    IF card # "None" /\ cards[card] = 0 /\ player_id \in 1..MaxPlayerId
    THEN [cards EXCEPT ![card] = player_id]
    ELSE cards

\* CardManager.play_cards with Card.reset: the owners after the call
play_cards(cards, card_list) ==
    [c \in DOMAIN cards |-> IF c \in card_list THEN 0 ELSE cards[c]]

\* a new Board: nothing owned, CardManager() with every card unassigned.
\* fn holds the owner of every card of CardManager.cards and the last call
\* with its arguments and result.
InitCards ==
    /\ BoardOnly([t \in Regions |-> None], [t \in Regions |-> 0])
    /\ fn = [op |-> "CardManager", cards |-> [t \in DOMAIN territory_card_types |-> 0],
             card |-> "None", player_id |-> 0, card_list |-> {}]

NextCards ==
    \/ \E c \in draw_card(fn.cards) :
          /\ fn' = [fn EXCEPT !.op = "draw_card", !.card = c]
          /\ UNCHANGED <<game, buffer, wire, sent>>
    \/ \E c \in DOMAIN fn.cards \cup {"None"}, p \in 0..(MaxPlayerId + 1) :
          /\ fn' = [fn EXCEPT !.op = "assign_card", !.card = c, !.player_id = p,
                              !.cards = assign_card(fn.cards, c, p)]
          /\ UNCHANGED <<game, buffer, wire, sent>>
    \/ \E l \in SUBSET DOMAIN fn.cards :
          /\ fn' = [fn EXCEPT !.op = "play_cards", !.card_list = l,
                              !.cards = play_cards(fn.cards, l)]
          /\ UNCHANGED <<game, buffer, wire, sent>>

SpecCards == InitCards /\ [][NextCards]_vars

\* ------------------------------------------------------------------------
\* Properties
\* ------------------------------------------------------------------------
\* the step in which a call of op returns
Returned(op) == pc' = "idle" /\ last'.op = op

\* C1: between calls, every territory with an owner holds at least one troop
\* and every territory without an owner holds none.
C1_OwnedHoldsTroops ==
    pc = "idle" =>
        \A t \in Regions :
            /\ owner[t] # None => troop_count[t] >= 1
            /\ owner[t] = None => troop_count[t] = 0

\* C2: end_phase moves deploy -> attack -> fortify -> deploy; the current
\* player changes only on the end_phase that leaves fortify, to
\* (current_player mod N) + 1; after 3 * N calls the game is back at
\* (player 1, deploy).
C2_EndPhaseCycle ==
    [][/\ Returned("end_phase") =>
            /\ phase' = CASE phase = "deploy" -> "attack"
                          [] phase = "attack" -> "fortify"
                          [] phase = "fortify" -> "deploy"
            /\ current_player' = IF phase = "fortify"
                                 THEN (current_player % NumPlayers) + 1
                                 ELSE current_player
       /\ current_player' # current_player =>
            Returned("end_phase") /\ phase = "fortify"
       /\ end_calls' = 0 => current_player' = 1 /\ phase' = "deploy"]_vars

\* a full cycle of end_phase calls has brought the turn back to player 1,
\* who owns no territory any more
C2_Witness ==
    /\ pc = "idle"
    /\ last.op = "end_phase"
    /\ end_calls = 0
    /\ current_player = 1
    /\ phase = "deploy"
    /\ Owned(owner, 1) = {}

\* C3: when end_phase has just made a player the current player in phase
\* deploy, that player's allotment is the income of Board.calculate_troops
\* on the board of that moment.
C3_AllotmentIsIncome ==
    (pc = "idle" /\ last.op = "end_phase" /\ phase = "deploy") =>
        troops_to_deploy[current_player] = calculate_troops(owner, current_player)

\* C4: only end_phase changes current_player or phase.
C4_OnlyEndPhaseMoves ==
    [][(current_player' # current_player \/ phase' # phase) =>
            pc = "idle" /\ Returned("end_phase")]_vars

\* an ai_attack has won the game and the game is still in the attack phase
C4_Witness ==
    /\ pc = "idle"
    /\ last.op = "ai_attack"
    /\ game_over
    /\ phase = "attack"

\* C5: a deploy_troops call succeeds only in phase deploy, for the current
\* player, on a territory of that player and with a count within the
\* allotment; it then adds count troops and takes count from the allotment;
\* no deploy_troops call makes the allotment negative or larger.
C5_DeployWithinAllotment ==
    [][Returned("deploy_troops") =>
            /\ last'.ret = RetTrue =>
                 /\ phase = "deploy"
                 /\ \E t \in Regions, c \in SignedCounts :
                       /\ owner[t] = current_player
                       /\ c <= troops_to_deploy[current_player]
                       /\ troop_count' = [troop_count EXCEPT ![t] = @ + c]
                       /\ troops_to_deploy' =
                            [troops_to_deploy EXCEPT ![current_player] = @ - c]
            /\ troops_to_deploy'[current_player] >= 0
            /\ troops_to_deploy'[current_player] <= troops_to_deploy[current_player]]_vars

\* C6: a fortify transfer leaves at least one troop on the territory it
\* takes troops from.
C6_FortifyKeepsOne ==
    [][(Returned("ai_fortify") \/ Returned("user_fortify_amount")) =>
            \A t \in Regions :
                troop_count'[t] < troop_count[t] => troop_count'[t] >= 1]_vars

\* what the claim C7 calls a legal action
LegalDeploy(p, t, c) ==
    /\ phase = "deploy"
    /\ p = current_player
    /\ t \in Regions
    /\ owner[t] = p
    /\ c <= troops_to_deploy[p]

LegalAttack(f, t) ==
    /\ phase = "attack"
    /\ f \in Regions
    /\ t \in Regions
    /\ owner[f] = current_player
    /\ owner[t] # current_player
    /\ t \in territories_with_adjacency[f]
    /\ troop_count[f] > 1

LegalFortify(f, t) ==
    /\ phase = "fortify"
    /\ f \in Regions
    /\ t \in Regions
    /\ owner[f] = current_player
    /\ owner[t] = current_player

FailsCleanly(op) ==
    /\ last' = [op |-> op, ret |-> RetFalse, rounds |-> 0]
    /\ UNCHANGED <<owner, troop_count, troops_to_deploy, current_player, phase,
                   game_over>>

\* C7: an illegal deploy_troops, user_attack, ai_attack, user_fortify or
\* ai_fortify call returns a failure value, raises nothing and changes nothing.
C7_IllegalCallsFailCleanly ==
    [][/\ \A p \in Players, t \in Names, c \in Counts :
            (deploy_troops(p, t, c) /\ ~LegalDeploy(p, t, c)) =>
                FailsCleanly("deploy_troops")
       /\ \A f \in Names, t \in Names :
            /\ (user_attack(f, t) /\ ~LegalAttack(f, t)) => FailsCleanly("user_attack")
            /\ (ai_attack(f, t) /\ ~LegalAttack(f, t)) => FailsCleanly("ai_attack")
            /\ (user_fortify(f, t) /\ ~LegalFortify(f, t)) =>
                    FailsCleanly("user_fortify")
            /\ \A m \in Counts :
                 (ai_fortify(f, t, m) /\ ~LegalFortify(f, t)) =>
                    FailsCleanly("ai_fortify")]_vars

\* C8: an attack call reaches the dice only in phase attack, from a territory
\* of the current player holding more than one troop, against an adjacent
\* territory the current player does not own; an attack call that does not
\* reach the dice changes no owner and no troop count; an adjacent unowned
\* target passes the test.
C8_AttackOnlyWhenValid ==
    [][/\ (pc = "idle" /\ pc' = "blitz") =>
            /\ phase = "attack"
            /\ atk'.op \in {"user_attack", "ai_attack"}
            /\ owner[atk'.from] = current_player
            /\ owner[atk'.to] # current_player
            /\ atk'.to \in territories_with_adjacency[atk'.from]
            /\ troop_count[atk'.from] > 1
       /\ (pc = "idle" /\ (Returned("user_attack") \/ Returned("ai_attack"))) =>
            UNCHANGED <<owner, troop_count>>
       /\ \A f \in Regions, t \in Regions :
            (/\ pc = "idle"
             /\ phase = "attack"
             /\ owner[f] = current_player
             /\ troop_count[f] > 1
             /\ t \in territories_with_adjacency[f]
             /\ owner[t] = None) =>
                ENABLED (ai_attack(f, t) /\ pc' = "blitz")]_vars

\* an attack on an unowned territory has reached the dice
C8_Witness ==
    /\ pc = "blitz"
    /\ atk.op = "ai_attack"
    /\ owner[atk.to] = None
    /\ troop_count[atk.to] = 0

\* C9: blitz_attack rolls no dice while the attacker holds one troop or less,
\* and the attacker holds at least one troop after every round and after the
\* troop deducted on capture.
C9_AttackerKeepsOne ==
    [][pc = "blitz" =>
            /\ pc' = "blitz" => troop_count[atk.from] > 1
            /\ troop_count'[atk.from] >= 1]_vars

\* C10: blitz_attack changes the defender's owner exactly when the dice loop
\* ends with the defender at 0 troops; the defender then belongs to the
\* attacker's owner and holds 1 troop, and the attacker holds one troop less
\* than at the end of the loop; otherwise the loop ended with the attacker at
\* 1 troop, no owner changes and the defender keeps at least 1 troop.
C10_CaptureIffDefenderEmpty ==
    [][/\ (pc = "blitz" /\ pc' = "blitz") => owner' = owner
       /\ (pc = "blitz" /\ pc' = "idle" /\ atk.op = "blitz_attack") =>
            IF troop_count[atk.to] = 0
            THEN /\ owner'[atk.to] # owner[atk.to]
                 /\ owner' = [owner EXCEPT ![atk.to] = owner[atk.from]]
                 /\ troop_count' = [troop_count EXCEPT
                                       ![atk.to] = 1,
                                       ![atk.from] = troop_count[atk.from] - 1]
            ELSE /\ owner' = owner
                 /\ troop_count' = troop_count
                 /\ troop_count[atk.from] = 1
                 /\ troop_count'[atk.to] >= 1]_vars

\* a blitz_attack call has captured the defender after two dice rounds or more
C10_Witness ==
    /\ pc = "idle"
    /\ last.op = "blitz_attack"
    /\ last.ret = RetTrue
    /\ last.rounds >= 2
    /\ Cardinality(Owners(owner)) = 1

C12_PostCaptureTransfer ==
    [][\A move_amount \in Counts :
         (/\ blitz_return(move_amount)
          /\ atk.op = "ai_attack"
          /\ owner' # owner) =>
              /\ troop_count'[atk.to] =
                    Max(1, Min(move_amount, troop_count[atk.from] - 1))
              /\ troop_count'[atk.from] >= 1]_vars

\* C13: Board.calculate_troops and boardmanagement.calculate_troops return
\* max(floor(n / 3), 3) plus the bonuses of exactly the continents the player
\* owns in full, n being the number of territories the player owns: 3 for
\* 3 territories and no full continent, 8 for 9 territories with one full
\* continent worth 5, 3 for no territory.
C13_TroopIncome ==
    fn.op \in {"Board.calculate_troops", "boardmanagement.calculate_troops"} =>
        LET p == fn.player_id
            n == Cardinality({t \in IncomeRegions : owner[t] = p})
            north == \A t \in IncomeContinents["North America"] : owner[t] = p
            south == \A t \in IncomeContinents["South America"] : owner[t] = p
            bonus == (IF north THEN 5 ELSE 0) + (IF south THEN 2 ELSE 0)
        IN /\ \E q \in 0..n :
                 /\ 3 * q <= n
                 /\ n < 3 * q + 3
                 /\ fn.ret = <<(IF q >= 3 THEN q ELSE 3) + bonus>>
           /\ (n = 3 /\ bonus = 0) => fn.ret = <<3>>
           /\ (n = 9 /\ north) => fn.ret = <<8>>
           /\ n = 0 => fn.ret = <<3>>

\* boardmanagement.calculate_troops has returned 8 for a player whose 9
\* territories are North America
C13_Witness ==
    /\ fn.op = "boardmanagement.calculate_troops"
    /\ Cardinality({t \in IncomeRegions : owner[t] = fn.player_id}) = 9
    /\ \A t \in IncomeContinents["North America"] : owner[t] = fn.player_id
    /\ fn.ret = <<8>>

\* C14: after generate_random_board with n players every region has exactly
\* one owner in 1..n and 1 troop; player i owns floor(total / n) regions and
\* one more iff i <= total mod n; the counts of two players differ by at
\* most 1 and add up to the number of regions.
C14_RandomBoardIsBalanced ==
    fn.op = "generate_random_board" =>
        LET n == fn.num_players
            total == Cardinality(GenRegions)
            count(i) == Cardinality({t \in GenRegions : owner[t] = i})
            RECURSIVE SumCounts(_)
            SumCounts(i) == IF i = 0 THEN 0 ELSE count(i) + SumCounts(i - 1)
        IN /\ \A t \in GenRegions : owner[t] \in 1..n /\ troop_count[t] = 1
           /\ \A i \in 1..n :
                 count(i) = (total \div n) + (IF i <= total % n THEN 1 ELSE 0)
           /\ \A i, j \in 1..n :
                 count(i) - count(j) <= 1 /\ count(j) - count(i) <= 1
           /\ SumCounts(n) = total

\* a board generated for three players from a shuffle that does not start
\* with the first region, the third player owning one region less
C14_Witness ==
    /\ fn.op = "generate_random_board"
    /\ fn.num_players = 3
    /\ fn.order[1] # GenNames[1]
    /\ Cardinality({t \in GenRegions : owner[t] = 1})
         > Cardinality({t \in GenRegions : owner[t] = 3})

\* C15: Board.check_winner, RiskGame.check_winner and
\* boardmanagement.check_winner return player p exactly when some territory
\* is owned and every owned territory belongs to p, unowned territories
\* being ignored, and none otherwise.
C15_CheckWinner ==
    fn.op # "" =>
        LET owned == {t \in DOMAIN owner : owner[t] # None}
            sole == {p \in Players : owned # {} /\ \A t \in owned : owner[t] = p}
        IN /\ \A p \in sole : fn.ret = <<p>>
           /\ sole = {} => fn.ret = <<None>>

\* the territories of p that paths from source reach when every step enters
\* a territory of p, S being those found so far
RECURSIVE ReachedThrough(_, _)
ReachedThrough(p, S) ==
    LET more == {t \in DOMAIN ConnAdjacency :
                    /\ owner[t] = p
                    /\ \E s \in S, i \in 1..3 :
                          i <= Len(ConnAdjacency[s]) /\ ConnAdjacency[s][i] = t}
    IN IF more \subseteq S THEN S ELSE ReachedThrough(p, S \cup more)

\* C16: find_connected_territories terminates on every ownership of the
\* cyclic graph and returns, each once and without source, exactly the
\* territories of player that paths from source reach when every step enters
\* a territory of player.
C16_ConnectedTerritories ==
    /\ <>(fn.op = "returned")
    /\ [](fn.op = "returned" =>
            /\ \A i, j \in 1..Len(fn.ret) : fn.ret[i] = fn.ret[j] => i = j
            /\ \A i \in 1..Len(fn.ret) : fn.ret[i] # fn.source
            /\ {fn.ret[i] : i \in 1..Len(fn.ret)}
                 = ReachedThrough(fn.player_id, {fn.source}) \ {fn.source})

\* the call has returned three territories found around the cycle Indonesia,
\* New_Guinea, Western_Australia of one owner
C16_Witness ==
    /\ fn.op = "returned"
    /\ fn.source = "Indonesia"
    /\ \A t \in {"Indonesia", "New_Guinea", "Western_Australia",
                  "Eastern_Australia"} : owner[t] = fn.player_id
    /\ owner["Siam"] # fn.player_id
    /\ Len(fn.ret) = 3

\* C17: Board.deploy_troops(player_id, territory, troops) returns success
\* only for a known region owned by player_id and troops >= 0, and then adds
\* exactly troops to that region and changes nothing else; for another
\* owner, an unknown region or a negative amount it returns failure, raises
\* nothing and leaves the board unchanged.
C17_BoardDeployTroops ==
    [][\A player_id \in Players, territory \in Names, troops \in SignedCounts :
         Board_deploy_troops(player_id, territory, troops) =>
            IF territory \in Regions /\ owner[territory] = player_id /\ troops >= 0
            THEN /\ last'.ret = RetTrue
                 /\ troop_count' = [troop_count EXCEPT ![territory] = @ + troops]
                 /\ UNCHANGED <<owner, current_player, phase, troops_to_deploy,
                                game_over>>
            ELSE /\ last'.ret = RetFalse
                 /\ UNCHANGED <<owner, troop_count, current_player, phase,
                                troops_to_deploy, game_over>>]_vars

\* the records consumed so far, each with its newline
RECURSIVE Consumed(_)
Consumed(records) ==
    IF records = <<>> THEN <<>>
    ELSE Head(records) \o <<"\n">> \o Consumed(Tail(records))

\* C18: for every byte stream and every split of it into recv chunks,
\* get_next_command returns one result per newline-terminated record, in
\* order, each the parse of its record, and everything received after the
\* consumed newlines stays in the buffer: the consumed records, the buffer
\* and the bytes still to come always make up the text of the stream.
C18_FramingKeepsEveryByte ==
    /\ decode(wire).ok
    /\ Consumed(fn.records) \o buffer \o decode(wire).text = decode(fn.stream).text
    /\ Len(fn.returned) = Len(fn.records)
    /\ \A i \in 1..Len(fn.records) :
          /\ newline_index(fn.records[i]) = 0
          /\ fn.returned[i] = json_loads(strip(fn.records[i]))

C20_ServerDeployChecksTurn ==
    [][\A p \in Players, t \in Names, n \in SignedCounts :
         handle_deploy_troops(p, t, n) =>
            IF p = current_player /\ phase = "deploy" /\ n <= troops_to_deploy[p]
            THEN TRUE
            ELSE /\ sent'[1].success = FALSE
                 /\ UNCHANGED <<owner, troop_count, troops_to_deploy>>]_vars

\* C21: an end_phase command advances the state machine only if its player
\* and phase fields are the server's current player and current phase; an
\* end_phase command naming another player or phase, or omitting them,
\* leaves current_player and phase unchanged.
C21_EndPhaseCommandIsChecked ==
    [][\A p \in CommandPlayers, ph \in CommandPhases :
         (handle_end_phase(p, ph) /\ ~(p = current_player /\ ph = phase))
            => UNCHANGED <<current_player, phase>>]_vars

\* C22: a record that is not valid JSON or has an unknown type is dropped
\* without ending the session: after it the command loop is still waiting
\* for the next command, the connection is open and the game state is
\* unchanged.
C22_BadRecordIsDropped ==
    [][(unknown_command \/ command_is_None("bad_json"))
          => (fn'.at = "wait" /\ UNCHANGED game)]_vars

\* C23: once a client disconnect is detected in the GameManager loop, no
\* further phase or turn is started (no phase_update or turn_update is
\* sent), the board is not mutated any more, and the loop does not go back
\* to waiting; the session only closes.
C23_DisconnectIsTerminal ==
    [][(fn.op = "start_game" /\ fn.gone)
          => /\ UNCHANGED <<owner, troop_count>>
             /\ \A i \in 1..Len(sent') :
                   sent'[i].type \notin {"phase_update", "turn_update"}
             /\ fn'.at \in {fn.at, "closed"}]_vars

\* C24: the turn loop of start_game terminates: on a board nobody wins,
\* with a client that ends every user phase, it ends once the cap of
\* TurnCap turns has been played, so no turn beyond the one after the cap
\* is ever started.
C24_TurnLoopTerminates ==
    (fn.op = "start_game" /\ ~fn.gone) => fn.turns <= TurnCap + 1

\* C25: whenever the server waits for a command, the client's view (the
\* full board state sent at the start, overlaid with the territory_update
\* messages in arrival order) is the server's board, for every territory.
C25_ClientViewIsBoard ==
    (fn.op = "start_game" /\ fn.at = "wait")
       => \A t \in Regions : fn.view[t] = <<owner[t], troop_count[t]>>

\* the server waits for a command after an AI deploy and a client deploy
\* have both changed the board
C25_Witness ==
    /\ fn.op = "start_game"
    /\ fn.at = "wait"
    /\ \E t \in Regions : troop_count[t] >= 3
    /\ Len(sent) = 2
    /\ sent[2].type = "territory_update"
    /\ sent[2].troops = 2

\* C26: every phase_update and turn_update is sent after the transition it
\* reports, and when it is sent its player and phase are
\* RiskGame.current_player and RiskGame.phase of the session's state
\* machine.
C26_UpdatesReportTheStateMachine ==
    \A i \in 1..Len(sent) :
       /\ sent[i].type = "phase_update"
             => (sent[i].player = current_player /\ sent[i].phase = phase)
       /\ sent[i].type = "turn_update"
             => sent[i].current_player = current_player

\* C27: in every phase_update the server sends, the first one of run_game
\* included, is_user is true if and only if the player named in the message
\* is configured as "User" in the session's player list.
C27_IsUserMatchesPlayerList ==
    fn.op = "run_game"
       => \A i \in 1..Len(sent) :
             sent[i].type = "phase_update"
                => (sent[i].is_user <=> fn.players[sent[i].player] = "User")

\* C28: once a stop has been requested, the command loop handles no further
\* command: the only step the session takes is the one that leaves the loop
\* and closes.
C28_StopEndsTheLoop ==
    [][(fn.op = "run_game" /\ fn.stop /\ fn.at # "closed")
          => fn'.at = "closed"]_vars

\* C29: after any sequence of draw_card, assign_card and play_cards calls
\* the deck holds the same cards, one per region, and every card has one
\* owner in {unassigned, 1..4}; assign_card on a card that has an owner
\* leaves that owner unchanged; play_cards returns every played card to
\* the unassigned pool.
C29_CardsKeepOneOwner ==
    /\ [](/\ DOMAIN fn.cards = Regions
          /\ \A c \in Regions : fn.cards[c] \in 0..MaxPlayerId)
    /\ [][/\ (fn'.op = "assign_card" /\ fn'.card # "None"
                   /\ fn.cards[fn'.card] # 0)
              => fn'.cards[fn'.card] = fn.cards[fn'.card]
          /\ fn'.op = "play_cards"
              => \A c \in fn'.card_list : fn'.cards[c] = 0
          /\ fn'.op = "draw_card" => fn'.cards = fn.cards]_vars

\* assign_card has been called for another player on a card that has an
\* owner, and a played card is unassigned while another still has its owner
C29_Witness ==
    /\ fn.op = "assign_card"
    /\ fn.card # "None"
    /\ fn.player_id \in 1..MaxPlayerId
    /\ fn.cards[fn.card] \notin {0, fn.player_id}
    /\ fn.card_list # {}
    /\ \E c \in fn.card_list : fn.cards[c] = 0

\* C30: blitz_attack returns True if and only if the attacker captured the
\* defending territory, also when other players are left on the board:
\* user_attack then returns (attack_from, attack_to), and a direct call
\* returns True.
C30_BlitzReturnsCapture ==
    [][(pc = "blitz" /\ pc' = "idle") =>
          /\ atk.op = "user_attack"
                => (owner' # owner <=> last'.ret = <<atk.from, atk.to>>)
          /\ atk.op = "blitz_attack"
                => (owner' # owner <=> last'.ret = RetTrue)]_vars

\* the k-th highest of the faces thrown
KthHighest(thrown, k) ==
    CHOOSE v \in 1..DieFaces :
       /\ Cardinality({i \in DOMAIN thrown : thrown[i] > v}) < k
       /\ Cardinality({i \in DOMAIN thrown : thrown[i] >= v}) >= k

\* C31: in a round with A > 1 attacker troops and D > 0 defender troops the
\* attacker rolls min(3, A-1) dice and the defender min(2, D); the dice are
\* compared highest against highest over min(attacker dice, defender dice)
\* pairs; each pair removes one troop, from the defender when the
\* attacker's die is strictly greater and from the attacker otherwise; the
\* round removes min(attacker dice, defender dice) troops in total.
C31_DiceRound ==
    [][fn'.op = "round" =>
         LET A == fn.attacker
             D == fn.defender
             adice == IF A - 1 < 3 THEN A - 1 ELSE 3
             ddice == IF D < 2 THEN D ELSE 2
             pairs == IF adice < ddice THEN adice ELSE ddice
             won == {k \in 1..pairs :
                       KthHighest(fn.thrown_a, k) > KthHighest(fn.thrown_d, k)}
         IN /\ Len(fn'.attack_roll) = adice
            /\ Len(fn'.defense_roll) = ddice
            /\ fn'.defender = D - Cardinality(won)
            /\ fn'.attacker = A - (pairs - Cardinality(won))
            /\ (A + D) - (fn'.attacker + fn'.defender) = pairs]_vars

\* a round of three dice against two in which the highest pair is a tie and
\* the second pair goes to the attacker: each side has lost one troop
C31_Witness ==
    /\ fn.op = "round"
    /\ Len(fn.attack_roll) = 3
    /\ Len(fn.defense_roll) = 2
    /\ fn.attack_roll[1] = fn.defense_roll[1]
    /\ fn.attack_roll[2] > fn.defense_roll[2]
    /\ fn.losses = [def |-> 1, att |-> 1]

\* the response the protocol pairs with a query command
response_type(command_type) ==
    IF command_type = "request_troop_income" THEN "troop_income_response"
    ELSE "player_cards_response"

\* C32: while the session waits for an end_phase command, every
\* request_troop_income and every card-hand query, under either of its
\* names, is answered with its response before the next command is read.
C32_QueriesAreAnswered ==
    [][\A type \in QueryTypes, p \in Players :
         (waiting_for_command
            /\ handle_query("request_current_player_cards", type, p))
         => /\ Len(sent') = 1
            /\ sent'[1].type = response_type(type)]_vars

\* C33: in an AI deploy phase of player p every pass of simulate_ai_deploy
\* adds at least one troop to one territory of p and to nothing else, and
\* takes it from the troops left, so the loop terminates; no owner changes;
\* on return the troops on p's territories have grown by
\* Board.calculate_troops(p) in total and no other territory has changed;
\* for a player owning no territory nothing is deployed.
C33_AiDeploysItsIncome ==
    [][LET p == fn.player
           mine == {t \in Regions : owner[t] = p}
           start == [t \in Regions |-> IF owner[t] # None THEN 1 ELSE 0]
       IN /\ owner' = owner
          /\ (fn.at = "phase" /\ mine = {})
                => (troop_count' = troop_count /\ fn'.at # "deploy")
          /\ (fn.at = "phase" /\ mine # {})
                => (troop_count' = troop_count /\ fn'.at = "deploy")
          /\ fn.at = "deploy"
                => /\ \E t \in mine, k \in 1..3 :
                         /\ troop_count' = [troop_count EXCEPT ![t] = @ + k]
                         /\ fn'.remaining = fn.remaining - k
                   /\ fn'.remaining >= 0
                   /\ fn'.at # "deploy"
                         => /\ fn'.remaining = 0
                            /\ SumBonuses([t \in Regions |->
                                              troop_count'[t] - start[t]], mine)
                                  = calculate_troops(owner, p)
                            /\ \A t \in Regions \ mine :
                                  troop_count'[t] = start[t]]_vars

\* simulate_ai_deploy has returned after spreading five troops, the income
\* of a player holding the continent, over two territories
C33_Witness ==
    /\ fn.op = "start_game"
    /\ fn.at = "phase"
    /\ fn.phase = 2
    /\ troop_count["Indonesia"] + troop_count["New_Guinea"] = 7
    /\ troop_count["Indonesia"] >= 2
    /\ troop_count["New_Guinea"] >= 2
    /\ owner["Siam"] # fn.player

\* C34: in the run_game path a turn_update(p) is sent exactly when the
\* current player changes to p, once and before the phase_update, and never
\* when an end_phase only moves the phase on within the same player's turn,
\* whatever player the end_phase command names.
C34_TurnUpdateOnTurnChange ==
    [][(fn.op = "run_game"
          /\ (phase' # phase \/ current_player' # current_player))
       => LET turn_updates == {i \in 1..Len(sent') : sent'[i].type = "turn_update"}
          IN IF current_player' # current_player
             THEN /\ turn_updates = {1}
                  /\ sent'[1].current_player = current_player'
             ELSE turn_updates = {}]_vars

\* C35: draw_card returns a card that was unassigned before the call and
\* assigns it, so that the card is no longer in the unassigned pool and two
\* successive draw_card calls never return the same card; it returns None
\* exactly when no card is unassigned.
C35_DrawCardAssigns ==
    [][fn'.op = "draw_card" =>
         IF \A c \in DOMAIN fn.cards : fn.cards[c] # 0
         THEN fn'.card = "None"
         ELSE /\ fn'.card # "None"
              /\ fn.cards[fn'.card] = 0
              /\ fn'.cards[fn'.card] # 0
              /\ fn.op = "draw_card" => fn'.card # fn.card]_vars

\* C36: when an end_phase command hands control to an AI player, the server
\* ends that player's phases itself, one end_phase after another, each
\* followed by its phase_update and, when the player changes, preceded by
\* the turn_update; no command is read and the board does not change; the
\* handler returns to the command loop exactly when the current player is a
\* "User" again, after at most 3 * (N - 1) automatic steps.
C36_AiPhasesEndThemselves ==
    [][(fn.op = "run_game" /\ fn'.stop = fn.stop /\ fn.at # "closed")
       => /\ (fn.at = "wait" /\ phase' # phase)
                => (fn'.at = "ai" <=> fn.players[current_player'] = "AI")
          /\ fn.at = "ai"
                => /\ fn.players[current_player] = "AI"
                   /\ UNCHANGED <<owner, troop_count>>
                   /\ phase' = phase_order[(phase_index(phase) % 3) + 1]
                   /\ current_player' # current_player <=> phase = "fortify"
                   /\ sent'[Len(sent')] =
                         [type |-> "phase_update", player |-> current_player',
                          phase |-> phase',
                          is_user |-> (fn.players[current_player'] = "User")]
                   /\ IF current_player' # current_player
                      THEN sent'[1] = [type |-> "turn_update",
                                       current_player |-> current_player']
                           /\ Len(sent') = 2
                      ELSE Len(sent') = 1
                   /\ fn'.at = (IF fn.players[current_player'] = "User"
                                THEN "wait" ELSE "ai")
                   /\ fn'.auto = fn.auto + 1
                   /\ fn'.auto <= 3 * (NumPlayers - 1)]_vars

\* the handler has returned to the command loop after ending all three
\* phases of an AI player by itself
C36_Witness ==
    /\ fn.op = "run_game"
    /\ fn.at = "wait"
    /\ fn.auto = 3
    /\ phase = "deploy"
    /\ fn.players[current_player] = "User"

\* the troops on the board tc
TotalTroops(tc) == SumBonuses(tc, Regions)

\* C37: a successful fortify (ai_fortify, or fortify_troops through
\* user_fortify_amount) changes no owner, changes the troop counts of at
\* most the source and the destination, and keeps the total number of
\* troops on the board; with the source as destination the board is
\* unchanged.
C37_FortifyFrame ==
    [][/\ \A f \in Names, t \in Names, m \in SignedCounts :
            (ai_fortify(f, t, m) /\ last'.ret = RetTrue)
               => /\ owner' = owner
                  /\ \A x \in Regions \ {f, t} : troop_count'[x] = troop_count[x]
                  /\ TotalTroops(troop_count') = TotalTroops(troop_count)
                  /\ f = t => troop_count' = troop_count
       /\ \A m \in SignedCounts :
            user_fortify_amount(m)
               => /\ owner' = owner
                  /\ \A x \in Regions \ {last.ret[1], last.ret[2]} :
                        troop_count'[x] = troop_count[x]
                  /\ TotalTroops(troop_count') = TotalTroops(troop_count)
                  /\ last.ret[1] = last.ret[2] => troop_count' = troop_count]_vars

\* an ai_fortify has returned True and a territory of the current player
\* has been emptied into another
C37_Witness ==
    /\ last.op = "ai_fortify"
    /\ last.ret = RetTrue
    /\ \E f \in Regions, t \in Regions :
          /\ f # t
          /\ owner[f] = current_player
          /\ owner[t] = current_player
          /\ troop_count[f] = 0
          /\ troop_count[t] = 2

\* C38: every blitz_attack call ends whatever the dice show: each dice round
\* takes at least one troop from the attacker or the defender and adds none,
\* a battle of A attacker troops against D defender troops is over after at
\* most A + D - 1 rounds, and combat never increases the number of troops on
\* the board.
C38_BlitzTerminates ==
    /\ [](pc = "blitz" =>
            /\ troop_count[atk.from] <= atk.attackers
            /\ troop_count[atk.to] <= atk.defenders
            /\ atk.rounds <= (atk.attackers + atk.defenders)
                               - (troop_count[atk.from] + troop_count[atk.to])
            /\ atk.rounds <= Max(0, atk.attackers + atk.defenders - 1)
            /\ ENABLED (blitz_round \/ \E m \in Counts : blitz_return(m)))
    /\ [][pc = "blitz" =>
            /\ pc' = "blitz" =>
                  /\ atk'.rounds = atk.rounds + 1
                  /\ troop_count'[atk.from] <= troop_count[atk.from]
                  /\ troop_count'[atk.to] <= troop_count[atk.to]
                  /\ TotalTroops(troop_count') < TotalTroops(troop_count)
            /\ pc' = "idle" =>
                  /\ last'.rounds <= Max(0, atk.attackers + atk.defenders - 1)
                  /\ TotalTroops(troop_count') <= TotalTroops(troop_count)]_vars

\* a blitz_attack call has returned after three dice rounds or more
C38_Witness ==
    /\ pc = "idle"
    /\ last.op = "blitz_attack"
    /\ last.rounds >= 3

====
